---- MODULE Spec2Model ----
(***************************************************************************)
(* Model of juniorguru/sync/club_content.py: process_channels (the        *)
(* coordinator), channel_worker (the workers), the asyncio.Queue they      *)
(* share and the authors registry.  Every await of the source is a step    *)
(* boundary; the code between two awaits runs as one atomic step, as the   *)
(* asyncio event loop runs it.                                             *)
(***************************************************************************)
EXTENDS Naturals, Integers, Sequences, FiniteSets, TLC

\* ------------------------------------------------------------------ bounds
\* the crawl is started with 1..MaxWorkers workers (WORKERS_COUNT, line 14) on
\* the first 0..NumChannels channels of the forest
MaxWorkers == 2
NumChannels == 2

\* ------------------------------------------------------- the crawled forest
Workers == 1..MaxWorkers
Channels == 1..NumChannels
\* the actor ids the messages and reactions refer to
NumUsers == NumChannels + 1
Users == 1..NumUsers

\* channel.history(): message k of container c has id 10c + k
MessageId(c, k) == c * 10 + k

\* message.flags.has_thread: the first message of channel 1 starts a thread
has_thread(m) == m = MessageId(1, 1)

\* message.guild.fetch_channel(message.id): a thread has its message's id
fetch_channel(m) == m

\* channel 1 holds NumChannels messages, each further channel one fewer, and
\* a thread one
NumMessages(c) == IF c \in Channels THEN NumChannels + 1 - c ELSE 1

Threads ==
    UNION {{fetch_channel(MessageId(c, k)) :
                k \in {j \in 1..NumMessages(c) : has_thread(MessageId(c, j))}} :
           c \in Channels}

Containers == Channels \cup Threads

History(c) == [k \in 1..NumMessages(c) |-> MessageId(c, k)]

Messages == UNION {{History(c)[k] : k \in 1..NumMessages(c)} : c \in Containers}

\* message.author.id
Author(m) == (m % NumUsers) + 1

\* message.reactions: each message carries a pin by one user and a thumbs-up
\* by another; messages with an even id carry a second pin emoji by the
\* same user
Reactions(m) ==
    {[emoji |-> "pin", users |-> {((m + 1) % NumUsers) + 1}],
     [emoji |-> "thumbsup", users |-> {((m + 2) % NumUsers) + 1}]}
    \cup (IF m % 2 = 0
          THEN {[emoji |-> "pin-tone2", users |-> {((m + 1) % NumUsers) + 1}]}
          ELSE {})

\* juniorguru.lib.club.emoji_name: drops the skin tone modifier
emoji_name(e) == IF e = "pin-tone2" THEN "pin" ELSE e

\* juniorguru.lib.club.EMOJI_PINS
EMOJI_PINS == {"pin"}

\* the users of every reaction, whatever its emoji
all_reacting_users(reactions) == UNION {r.users : r \in reactions}

\* lines 130-136: the set of the users of the reactions whose emoji is a pin
get_reacting_users(reactions) ==
    UNION {r.users : r \in {x \in reactions : emoji_name(x.emoji) \in EMOJI_PINS}}

\* ------------------------------------------------------------------- state
VARIABLES
    nworkers,     \* number of workers started (WORKERS_COUNT of this crawl)
    nseeds,       \* number of channels the caller passed
    queue,        \* asyncio.Queue: the items
    unfinished,   \* asyncio.Queue: _unfinished_tasks
    put_count,    \* per container, the put_nowait calls
    done_count,   \* per container, the task_done calls
    dequeued,     \* per container, the times queue.get returned it
    wpc,          \* per worker, the await it is suspended at
    cur,          \* per worker, its channel (0: none)
    idx,          \* per worker, the index of its message in the history
    cancel_req,   \* per worker, worker.cancel() was called
    werr,         \* per worker, the exception its task holds: who raised, where
    first_done,   \* the worker whose task finished first (0: none)
    authors,      \* the registry: actor id -> the ClubUser created for it
    created,      \* per actor id, the create_user calls that succeeded
    emitted,      \* per container, the ClubMessage rows in creation order
    pins,         \* <<user, message>> -> the ClubPinReaction rows
    coord_pc,     \* where process_channels is
    join_done,    \* queue_completed.done()
    outcome,      \* "none", "Completed", "Failed"
    error,        \* the exception process_channels raised
    result        \* what process_channels returned

qvars == <<queue, unfinished, put_count, done_count, dequeued>>
wvars == <<wpc, cur, idx, cancel_req, werr, first_done>>
svars == <<authors, created, emitted, pins>>
cvars == <<coord_pc, join_done, outcome, error, result>>
pvars == <<nworkers, nseeds>>
vars == <<nworkers, nseeds, queue, unfinished, put_count, done_count, dequeued,
          wpc, cur, idx, cancel_req, werr, first_done,
          authors, created, emitted, pins,
          coord_pc, join_done, outcome, error, result>>

NoError == [worker |-> 0, container |-> 0]
NoResult == [returned |-> FALSE, registry |-> <<>>]

Started == 1..nworkers

\* process_channels up to asyncio.wait: the queue is seeded, the workers and
\* the queue.join() task are created, nothing has run yet
Init ==
    /\ nworkers \in 1..MaxWorkers
    /\ nseeds \in 0..NumChannels
    /\ queue = [i \in 1..nseeds |-> i]
    /\ unfinished = nseeds
    /\ put_count = [c \in Containers |-> IF c \in 1..nseeds THEN 1 ELSE 0]
    /\ done_count = [c \in Containers |-> 0]
    /\ dequeued = [c \in Containers |-> 0]
    /\ wpc = [w \in Workers |-> IF w \in 1..nworkers THEN "get" ELSE "absent"]
    /\ cur = [w \in Workers |-> 0]
    /\ idx = [w \in Workers |-> 0]
    /\ cancel_req = [w \in Workers |-> FALSE]
    /\ werr = [w \in Workers |-> NoError]
    /\ first_done = 0
    /\ authors = <<>>
    /\ created = <<>>
    /\ emitted = [c \in Containers |-> <<>>]
    /\ pins = <<>>
    /\ coord_pc = "wait"
    /\ join_done = FALSE
    /\ outcome = "none"
    /\ error = NoError
    /\ result = NoResult

\* ------------------------------------------------------ the registry (dict)
\* a lookup that misses every id: the assignment without the membership test
AlwaysMissing(id, reg) == TRUE

\* lines 99 and 119: `id not in authors`
NotInAuthors(id, reg) == id \notin DOMAIN reg

\* the create_user calls made so far for id
Count(cnt, id) == IF id \in DOMAIN cnt THEN cnt[id] ELSE 0

\* the registry left as it was: the id is never inserted
InsertNone(reg, cnt, S) == reg

\* lines 99-100 and 119-120 for every id of S: the dict after each id was
\* looked up and the missing ones were assigned.  The ClubUser that
\* create_user returns is named by its serial among the ClubUsers of that id.
InsertAll(reg, cnt, S) ==
    [id \in DOMAIN reg \cup S |->
        IF id \in S /\ NotInAuthors(id, reg) THEN Count(cnt, id) + 1 ELSE reg[id]]

\* the create_user calls lines 100 and 120 make for the ids of S
CountAll(cnt, reg, S) ==
    [id \in DOMAIN cnt \cup S |->
        Count(cnt, id) + (IF id \in S /\ NotInAuthors(id, reg) THEN 1 ELSE 0)]

\* the loop of line 118 without its create_reaction call
LinkNone(p, S, m) == p

\* ClubPinReaction.create for every user of S on message m
LinkAll(p, S, m) ==
    [k \in DOMAIN p \cup {<<u, m>> : u \in S} |->
        (IF k \in DOMAIN p THEN p[k] ELSE 0)
        + (IF k \in {<<u, m>> : u \in S} THEN 1 ELSE 0)]

\* ------------------------------------------------------------- the workers
Terminated(w) == wpc[w] \in {"failed", "cancelled"}

\* a worker the event loop can resume: started, not finished, and with no
\* CancelledError waiting to be thrown into it
Runnable(w) == w \in Started /\ ~Terminated(w) /\ ~cancel_req[w]

Message(w) == History(cur[w])[idx[w]]

\* the exception is caught and the call made again: the worker stays at its
\* await
FailRetried(w) ==
    /\ werr' = [werr EXCEPT ![w] = [worker |-> w, container |-> cur[w]]]
    /\ UNCHANGED <<wpc, idx, first_done>>

\* the task of worker w finishes with an exception; its channel is never
\* handed back
Fail(w) ==
    /\ wpc' = [wpc EXCEPT ![w] = "failed"]
    /\ idx' = [idx EXCEPT ![w] = 0]
    /\ werr' = [werr EXCEPT ![w] = [worker |-> w, container |-> cur[w]]]
    /\ first_done' = IF first_done = 0 THEN w ELSE first_done

\* a row stored ahead of the rows the channel already has
EmitFirst(rows, m) == <<m>> \o rows

\* a create call that stores no row
EmitNothing(rows, m) == rows

\* lines 103-115: ClubMessage.create adds the row of message m to the rows of
\* its channel
Emit(rows, m) == Append(rows, m)

\* lines 99-116, which run without an await: resolve the author, then
\* ClubMessage.create.  fault names the database call that raises, if any.
EmitBlock(w, c, i, fault) ==
    LET m == History(c)[i]
        a == Author(m) IN
    \/ /\ fault = "none"
       /\ idx' = [idx EXCEPT ![w] = i]
       /\ authors' = InsertAll(authors, created, {a})
       /\ created' = CountAll(created, authors, {a})
       /\ emitted' = [emitted EXCEPT ![c] = Emit(@, m)]
       /\ wpc' = [wpc EXCEPT ![w] = "reactions"]
       /\ UNCHANGED <<pins, werr, first_done>>
    \/ /\ fault = "create_user"
       /\ NotInAuthors(a, authors)
       /\ Fail(w)
       /\ UNCHANGED svars
    \/ /\ fault = "create_message"
       /\ authors' = InsertAll(authors, created, {a})
       /\ created' = CountAll(created, authors, {a})
       /\ Fail(w)
       /\ UNCHANGED <<emitted, pins>>

Faults == {"none", "create_user", "create_message"}

\* a get that leaves the item in the queue
Peeked(q) == q

\* line 82: what queue.get() leaves in the queue
Dequeued(q) == Tail(q)

\* line 82: a worker that starts, or that waits in queue.get(), is handed
\* the head of the queue
WGet(w) ==
    /\ Runnable(w) /\ wpc[w] = "get"
    /\ queue # <<>>
    /\ cur' = [cur EXCEPT ![w] = Head(queue)]
    /\ idx' = [idx EXCEPT ![w] = 0]
    /\ queue' = Dequeued(queue)
    /\ dequeued' = [dequeued EXCEPT ![Head(queue)] = @ + 1]
    /\ wpc' = [wpc EXCEPT ![w] = "history"]
    /\ UNCHANGED <<unfinished, put_count, done_count, cancel_req, werr, first_done>>
    /\ UNCHANGED <<svars, cvars, pvars>>

\* an iterator that reports its end from the start
ExhaustedEarly(i, c) == TRUE

\* line 92: channel.history has yielded i messages of channel c and has no more
Exhausted(i, c) == i = NumMessages(c)

\* line 92 yields the next message; lines 93-95 up to the await of
\* fetch_channel, or lines 99-118 up to the await of get_reacting_users
WHistoryNext(w) ==
    /\ Runnable(w) /\ wpc[w] = "history"
    /\ ~Exhausted(idx[w], cur[w])
    /\ LET i == idx[w] + 1 IN
         IF has_thread(History(cur[w])[i])
         THEN /\ wpc' = [wpc EXCEPT ![w] = "fetch_thread"]
              /\ idx' = [idx EXCEPT ![w] = i]
              /\ UNCHANGED <<werr, first_done, svars>>
         ELSE \E fault \in Faults : EmitBlock(w, cur[w], i, fault)
    /\ UNCHANGED <<cur, cancel_req, qvars, cvars, pvars>>

\* line 92 is exhausted; lines 126-127: queue.task_done(); back at line 82,
\* queue.get() returns the head at once when the queue holds an item (it
\* suspends only on an empty queue)
WHistoryEnd(w) ==
    /\ Runnable(w) /\ wpc[w] = "history"
    /\ Exhausted(idx[w], cur[w])
    /\ unfinished' = unfinished - 1
    /\ done_count' = [done_count EXCEPT ![cur[w]] = @ + 1]
    /\ idx' = [idx EXCEPT ![w] = 0]
    /\ IF queue # <<>>
       THEN /\ cur' = [cur EXCEPT ![w] = Head(queue)]
            /\ queue' = Dequeued(queue)
            /\ dequeued' = [dequeued EXCEPT ![Head(queue)] = @ + 1]
            /\ UNCHANGED wpc
       ELSE /\ cur' = [cur EXCEPT ![w] = 0]
            /\ wpc' = [wpc EXCEPT ![w] = "get"]
            /\ UNCHANGED <<queue, dequeued>>
    /\ UNCHANGED <<put_count, cancel_req, werr, first_done>>
    /\ UNCHANGED <<svars, cvars, pvars>>

\* the loop body wrapped in try/finally: task_done runs although
\* channel.history raised
WHistoryFailFinally(w) ==
    /\ Runnable(w) /\ wpc[w] = "history"
    /\ Fail(w)
    /\ unfinished' = unfinished - 1
    /\ done_count' = [done_count EXCEPT ![cur[w]] = @ + 1]
    /\ UNCHANGED <<queue, put_count, dequeued>>
    /\ UNCHANGED <<cur, cancel_req, svars, cvars, pvars>>

\* line 92: channel.history raises
WHistoryFail(w) ==
    /\ Runnable(w) /\ wpc[w] = "history"
    /\ Fail(w)
    /\ UNCHANGED <<cur, cancel_req, qvars, svars, cvars, pvars>>

\* appendleft: the item goes to the head of the queue
PutAtHead(q, c) == <<c>> \o q

\* line 97: queue.put_nowait appends the item to the tail of the queue
PutAtTail(q, c) == Append(q, c)

\* line 95 returns the thread; line 97 puts it; lines 99-118 as above
WFetchThread(w) ==
    /\ Runnable(w) /\ wpc[w] = "fetch_thread"
    /\ LET thread == fetch_channel(Message(w)) IN
         /\ queue' = PutAtTail(queue, thread)
         /\ unfinished' = unfinished + 1
         /\ put_count' = [put_count EXCEPT ![thread] = @ + 1]
    /\ \E fault \in Faults : EmitBlock(w, cur[w], idx[w], fault)
    /\ UNCHANGED <<done_count, dequeued, cur, cancel_req, cvars, pvars>>

\* line 95: fetch_channel raises
WFetchThreadFail(w) ==
    /\ Runnable(w) /\ wpc[w] = "fetch_thread"
    /\ Fail(w)
    /\ UNCHANGED <<cur, cancel_req, qvars, svars, cvars, pvars>>

\* line 118 returns the reacting users (every message of the forest carries a
\* pin, so reaction.users() is awaited); lines 119-124 for each of them, in
\* the set's iteration order; then back to line 92
WReactions(w) ==
    /\ Runnable(w) /\ wpc[w] = "reactions"
    /\ LET R == get_reacting_users(Reactions(Message(w))) IN
         /\ authors' = InsertAll(authors, created, R)
         /\ created' = CountAll(created, authors, R)
         /\ pins' = LinkAll(pins, R, Message(w))
    /\ wpc' = [wpc EXCEPT ![w] = "history"]
    /\ UNCHANGED <<emitted, cur, idx, cancel_req, werr, first_done>>
    /\ UNCHANGED <<qvars, cvars, pvars>>

\* line 118: fetching the users of a reaction raises
WReactionsFail(w) ==
    /\ Runnable(w) /\ wpc[w] = "reactions"
    /\ Fail(w)
    /\ UNCHANGED <<cur, cancel_req, qvars, svars, cvars, pvars>>

\* lines 119-123: a database call raises for reacting user r, after the
\* users of S have been handled; create_user raises (r is not inserted) or
\* create_reaction does (r is)
WReactionsSinkFail(w) ==
    /\ Runnable(w) /\ wpc[w] = "reactions"
    /\ LET R == get_reacting_users(Reactions(Message(w))) IN
       \E r \in R : \E S \in SUBSET (R \ {r}) : \E inserted \in BOOLEAN :
         /\ ~inserted => NotInAuthors(r, InsertAll(authors, created, S))
         /\ LET T == IF inserted THEN S \cup {r} ELSE S IN
              /\ authors' = InsertAll(authors, created, T)
              /\ created' = CountAll(created, authors, T)
         /\ pins' = LinkAll(pins, S, Message(w))
    /\ Fail(w)
    /\ UNCHANGED <<emitted, cur, cancel_req, qvars, cvars, pvars>>

\* CancelledError is thrown into the worker at the await it is suspended at
WCancelled(w) ==
    /\ w \in Started /\ ~Terminated(w) /\ cancel_req[w]
    /\ wpc' = [wpc EXCEPT ![w] = "cancelled"]
    /\ first_done' = IF first_done = 0 THEN w ELSE first_done
    /\ UNCHANGED <<cur, idx, cancel_req, werr, qvars, svars, cvars, pvars>>

WorkerStep(w) ==
    \/ WGet(w)
    \/ WHistoryNext(w)
    \/ WHistoryEnd(w)
    \/ WHistoryFail(w)
    \/ WFetchThread(w)
    \/ WFetchThreadFail(w)
    \/ WReactions(w)
    \/ WReactionsFail(w)
    \/ WReactionsSinkFail(w)
    \/ WCancelled(w)

\* --------------------------------------------------------- the coordinator
\* a drain signal that looks at the items left instead of the pending count
DrainedWhenEmpty(n, q) == q = <<>>

\* line 61: queue.join() returns once _unfinished_tasks is 0
Drained(n, q) == n = 0

JoinWatcher ==
    /\ ~join_done
    /\ Drained(unfinished, queue)
    /\ join_done' = TRUE
    /\ UNCHANGED <<coord_pc, outcome, error, result, qvars, wvars, svars, pvars>>

\* line 66: the workers whose task is done
workers_done == {w \in Started : Terminated(w)}

\* return_when=ALL_COMPLETED
AllCompleted(jd, done) == jd /\ done = Started

\* a wait that returns on a timeout, with nothing done
WaitTimedOut(jd, done) == TRUE

\* line 62: asyncio.wait(..., return_when=FIRST_COMPLETED)
FirstCompleted(jd, done) == jd \/ done # {}

\* workers_done[-1]
LastOf(done) == CHOOSE w \in done : \A v \in done : w >= v

\* line 68: workers_done[0], the done worker with the lowest worker_no
FirstOf(done) == CHOOSE w \in done : \A v \in done : w <= v

\* lines 65-68 run again whenever a further worker is found done
CoordRaiseAgain ==
    /\ coord_pc \in {"wait", "raised"}
    /\ FirstCompleted(join_done, workers_done)
    /\ ~join_done
    /\ coord_pc' = "raised"
    /\ outcome' = "Failed"
    /\ \E w \in workers_done : error' = werr[w]
    /\ UNCHANGED <<join_done, result, qvars, wvars, svars, pvars>>

\* lines 65-68 handing the registry back with the exception
CoordRaiseWithRegistry ==
    /\ coord_pc = "wait"
    /\ FirstCompleted(join_done, workers_done)
    /\ ~join_done
    /\ coord_pc' = "raised"
    /\ outcome' = "Failed"
    /\ error' = werr[FirstOf(workers_done)]
    /\ result' = [returned |-> TRUE, registry |-> authors]
    /\ UNCHANGED <<join_done, qvars, wvars, svars, pvars>>

\* lines 65-68: the queue is not done, so a worker is; its exception leaves
\* process_channels
CoordRaise ==
    /\ coord_pc = "wait"
    /\ FirstCompleted(join_done, workers_done)
    /\ ~join_done
    /\ coord_pc' = "raised"
    /\ outcome' = "Failed"
    /\ error' = werr[FirstOf(workers_done)]
    /\ UNCHANGED <<join_done, result, qvars, wvars, svars, pvars>>

\* lines 65, 71-75: the queue is done; cancel every worker, await them
CoordCancel ==
    /\ coord_pc = "wait"
    /\ FirstCompleted(join_done, workers_done)
    /\ join_done
    /\ cancel_req' = [w \in Workers |-> w \in Started]
    /\ coord_pc' = "gather"
    /\ UNCHANGED <<join_done, outcome, error, result>>
    /\ UNCHANGED <<wpc, cur, idx, werr, first_done, qvars, svars, pvars>>

\* line 75 without return_exceptions: the CancelledError of the first worker
\* leaves gather and process_channels
CoordReturnRaising ==
    /\ coord_pc = "gather"
    /\ \A w \in Started : Terminated(w)
    /\ coord_pc' = "raised"
    /\ outcome' = "Failed"
    /\ error' = [worker |-> FirstOf(Started), container |-> 0]
    /\ UNCHANGED <<join_done, result, qvars, wvars, svars, pvars>>

\* lines 75-77: gather returns once every worker is done; return authors
CoordReturn ==
    /\ coord_pc = "gather"
    /\ \A w \in Started : Terminated(w)
    /\ coord_pc' = "returned"
    /\ outcome' = "Completed"
    /\ result' = [returned |-> TRUE, registry |-> authors]
    /\ UNCHANGED <<join_done, error, qvars, wvars, svars, pvars>>

CoordStep == CoordRaise \/ CoordCancel \/ CoordReturn

Next ==
    \/ \E w \in Workers : WorkerStep(w)
    \/ JoinWatcher
    \/ CoordStep

Spec == Init /\ [][Next]_vars

\* the event loop resumes a task whenever one can run
FairSpec == Spec /\ WF_vars(Next)

TypeOK ==
    /\ nworkers \in 1..MaxWorkers
    /\ nseeds \in 0..NumChannels
    /\ unfinished \in Int
    /\ coord_pc \in {"wait", "gather", "returned", "raised"}
    /\ outcome \in {"none", "Completed", "Failed"}
    /\ \A w \in Workers :
         wpc[w] \in {"absent", "get", "history", "fetch_thread", "reactions",
                     "failed", "cancelled"}

\* ------------------------------------------------------------- vocabulary
\* the containers that were put on the queue, seed or discovered
Enqueued == {c \in Containers : put_count[c] > 0}

\* the ClubMessage rows
EmittedMessages == UNION {{emitted[c][k] : k \in 1..Len(emitted[c])} : c \in Containers}

\* the actor ids the ClubMessage and ClubPinReaction rows refer to
Observed == {Author(m) : m \in EmittedMessages} \cup {k[1] : k \in DOMAIN pins}

FailedWorkers == {w \in Started : wpc[w] = "failed"}

InFlight(w) == wpc[w] \in {"history", "fetch_thread", "reactions"}

CrawlEnded == coord_pc \in {"returned", "raised"}

\* container c was handled to its end: every message emitted, task_done called
FullyProcessed(c) ==
    /\ dequeued[c] = 1
    /\ done_count[c] = 1
    /\ emitted[c] = History(c)
    /\ \A k \in 1..NumMessages(c) :
         has_thread(History(c)[k]) => fetch_channel(History(c)[k]) \in Enqueued

\* ------------------------------------------------------------------ claims
\* C1: create_user succeeds at most once per actor id, whatever the number of
\* workers and their interleaving.
C1_OneActorPerId == \A id \in DOMAIN created : created[id] <= 1

\* C1 witness: one id was met as author in two containers and created once.
C1_Witness ==
    \E c1, c2 \in Containers : \E id \in DOMAIN created :
      /\ c1 # c2
      /\ \E k \in 1..Len(emitted[c1]) : Author(emitted[c1][k]) = id
      /\ \E k \in 1..Len(emitted[c2]) : Author(emitted[c2][k]) = id
      /\ created[id] = 1
      /\ nworkers > 1

\* C2 as stated: when the crawl has ended, Completed or Failed, the registry
\* holds as many actors as there are distinct ids among the authors of the
\* emitted messages and the users of the created pin reactions.
C2_Original ==
    CrawlEnded => Cardinality(DOMAIN authors) = Cardinality(Observed)

\* C2 amended: after a Completed crawl the ids of the registry are exactly the
\* observed ids; in every state every observed id is in the registry, and the
\* registry holds at most one further id per worker that has failed.
C2_Dedup ==
    /\ outcome = "Completed" => DOMAIN authors = Observed
    /\ Observed \subseteq DOMAIN authors
    /\ Cardinality(DOMAIN authors \ Observed)
         <= Cardinality(FailedWorkers)

\* C2 witness: a Completed crawl of two channels by two workers.
C2_Witness ==
    /\ outcome = "Completed" /\ nworkers = 2 /\ nseeds = NumChannels
    /\ Cardinality(DOMAIN authors) >= 2

\* C3: the queue.join() task is done, and the crawl Completed, only when every
\* container that was put, seed or discovered, has been processed to its end
\* and marked done, and the children it disclosed were put.
C3_DrainIsComplete ==
    (join_done \/ outcome = "Completed") =>
        /\ queue = <<>>
        /\ \A c \in Enqueued : FullyProcessed(c)

\* C3 witness: a single worker discovered the thread, dequeued it itself,
\* and the crawl Completed.
C3_Witness ==
    /\ outcome = "Completed" /\ nworkers = 1
    /\ \E t \in Threads : done_count[t] = 1

\* C4: once a worker has failed, the coordinator can raise at its next step,
\* whatever is left in the queue and whatever the other workers are doing,
\* and once it has run the crawl is Failed.
C4_FailFast ==
    FailedWorkers # {} =>
        \/ coord_pc = "wait" /\ ENABLED CoordRaise
        \/ outcome = "Failed"

\* C4 witness: the crawl is Failed while the queue holds a container and
\* another worker is in the middle of one.
C4_Witness ==
    /\ outcome = "Failed"
    /\ queue # <<>>
    /\ \E w \in Started : InFlight(w)

\* C5: under fair scheduling the crawl ends: Completed with no worker failed,
\* or Failed with a failed worker.
C5_Terminates ==
    <>(\/ outcome = "Completed" /\ FailedWorkers = {}
       \/ outcome = "Failed" /\ FailedWorkers # {})

\* C5 witness: the crawl is Failed while another worker waits in queue.get
\* on an empty queue that will never be filled.
C5_Witness ==
    /\ outcome = "Failed"
    /\ queue = <<>>
    /\ \E w \in Started : wpc[w] = "get"

\* C6 as stated: when the crawl has ended, Completed or Failed, every worker
\* is done.
C6_Original == CrawlEnded => \A w \in Started : Terminated(w)

\* C7 as stated: no container is dequeued twice or held by two workers, and
\* when the crawl has ended every container that was put has been processed.
C7_Original ==
    /\ \A c \in Containers : dequeued[c] <= 1
    /\ \A v, w \in Started : (v # w /\ cur[v] # 0) => cur[v] # cur[w]
    /\ CrawlEnded => \A c \in Enqueued : dequeued[c] = 1 /\ done_count[c] = 1

\* C7 amended: no container is dequeued twice, marked done twice or held by
\* two workers, and when the crawl has ended Completed every container that
\* was put has been dequeued once and processed to its end.
C7_ExactlyOnce ==
    /\ \A c \in Containers : dequeued[c] <= 1 /\ done_count[c] <= dequeued[c]
    /\ \A v, w \in Started : (v # w /\ cur[v] # 0) => cur[v] # cur[w]
    /\ outcome = "Completed" => \A c \in Enqueued : FullyProcessed(c)

\* C7 witness: a Completed crawl in which two workers each processed a
\* container and the thread was processed too.
C7_Witness ==
    /\ outcome = "Completed" /\ nworkers = 2
    /\ \A c \in Containers : dequeued[c] = 1

\* C8 as stated: the error of a Failed crawl is the error of the worker that
\* terminated first.
C8_Original == outcome = "Failed" => error = werr[first_done]

\* C8 amended: the error the coordinator raises is the error of the
\* lowest-numbered worker among those done when it resumes from the race.
C8_LowestDoneWins ==
    [][(coord_pc = "wait" /\ coord_pc' = "raised") =>
         /\ error'.worker \in workers_done
         /\ error' = werr[error'.worker]
         /\ \A v \in workers_done : error'.worker <= v]_vars

\* C8 witness: two workers had failed when the coordinator resumed, and the
\* error raised is not the error of the one that failed first.
C8_Witness ==
    /\ outcome = "Failed"
    /\ first_done # 0
    /\ error.worker # first_done

\* C9: once the crawl has an outcome, neither the outcome nor the one error
\* raised changes, whatever fails afterwards.
C9_OneError ==
    [][outcome # "none" =>
         /\ outcome' = outcome
         /\ error' = error
         /\ (outcome = "Completed" => error = NoError)]_vars

\* C9 witness: a worker numbered below the one whose error was raised has
\* failed, which it can only have done after the coordinator raised.
C9_Witness ==
    /\ outcome = "Failed"
    /\ \E v \in FailedWorkers : v < error.worker /\ werr[v] # error

NoCleanExit ==
    \A w \in Started : Terminated(w) =>
        \/ wpc[w] = "failed" /\ werr[w] # NoError
        \/ wpc[w] = "cancelled" /\ coord_pc \in {"gather", "returned"}

\* C12: a worker at which a provider or sink call raised terminates with that
\* error in the same step, without marking its container done; from then on
\* it stays terminated on that container, takes nothing from the queue, and
\* the container is never marked done.
C12_ErrorPropagates ==
    [][\A w \in Started :
         /\ werr'[w] # werr[w] =>
              /\ werr[w] = NoError
              /\ InFlight(w)
              /\ wpc'[w] = "failed"
              /\ werr'[w] = [worker |-> w, container |-> cur[w]]
              /\ cur'[w] = cur[w]
              /\ done_count' = done_count
              /\ dequeued' = dequeued
         /\ wpc[w] # "failed" => werr[w] = NoError
         /\ wpc[w] = "failed" =>
              /\ wpc'[w] = "failed"
              /\ cur'[w] = cur[w] /\ werr'[w] = werr[w]
              /\ done_count[cur[w]] = 0 /\ done_count'[cur[w]] = 0]_vars

\* C12 witness: a worker failed and the crawl was raised while the queue
\* still held a container the failed worker never took.
C12_Witness ==
    /\ coord_pc = "raised"
    /\ \E w \in FailedWorkers : cur[w] # 0 /\ done_count[cur[w]] = 0
    /\ queue # <<>>

RECURSIVE SumOver(_, _)
\* the sum of f[c] over the containers c of S
SumOver(f, S) ==
    IF S = {} THEN 0
    ELSE LET c == CHOOSE x \in S : TRUE IN f[c] + SumOver(f, S \ {c})

\* C13: the queue's count of unfinished tasks is the number of puts, seeds
\* and discovered threads, less the number of task_done calls, and join has
\* completed only with the count at zero.
C13_PendingCount ==
    /\ unfinished = SumOver(put_count, Containers)
                      - SumOver(done_count, Containers)
    /\ join_done => unfinished = 0

\* C13 witness: join completed after every seed and a discovered thread had
\* been put and marked done.
C13_Witness ==
    /\ join_done
    /\ nseeds = NumChannels
    /\ SumOver(put_count, Containers) = NumChannels + 1
    /\ SumOver(done_count, Containers) = NumChannels + 1

\* the messages channel.history yields for container c
MessagesOf(c) == {History(c)[k] : k \in 1..NumMessages(c)}

\* the threads disclosed by the messages of container c
Children(c) == {fetch_channel(m) : m \in {x \in MessagesOf(c) : has_thread(x)}}

\* every reaction link the messages of container c call for is stored
LinksStored(c) ==
    \A m \in MessagesOf(c) :
        \A u \in get_reacting_users(Reactions(m)) : <<u, m>> \in DOMAIN pins

\* C14: a container is marked done at most once, by the worker that dequeued
\* it, and only in a step before which all its messages were stored with
\* their links and every thread they disclose had been put.
C14_DoneAfterAll ==
    [][\A c \in Containers :
         done_count'[c] # done_count[c] =>
             /\ done_count[c] = 0 /\ done_count'[c] = 1
             /\ dequeued[c] = 1
             /\ \E w \in Started : cur[w] = c /\ wpc[w] = "history"
             /\ emitted[c] = History(c)
             /\ LinksStored(c)
             /\ \A t \in Children(c) : put_count[t] = 1]_vars

\* C14 witness: the channel that discloses a thread is marked done while the
\* thread, put earlier, has not been marked done yet.
C14_Witness ==
    \E c \in Containers :
        /\ Children(c) # {}
        /\ done_count[c] = 1
        /\ \A t \in Children(c) : put_count[t] = 1 /\ done_count[t] = 0

\* C15: once queue.join() has completed the coordinator cancels the workers
\* and awaits them with no error recorded, and a crawl that has ended returned
\* the registry as Completed: every worker ended cancelled and none of those
\* cancellations became the crawl's error.
C15_CancellationDiscarded ==
    /\ coord_pc = "gather" => join_done /\ outcome = "none" /\ error = NoError
    /\ (join_done /\ CrawlEnded) =>
         /\ coord_pc = "returned"
         /\ outcome = "Completed"
         /\ error = NoError
         /\ result = [returned |-> TRUE, registry |-> authors]
         /\ \A w \in Started : wpc[w] = "cancelled" /\ werr[w] = NoError

\* C15 witness: a crawl with the most workers and a non-empty registry ended
\* Completed with every worker cancelled.
C15_Witness ==
    /\ outcome = "Completed"
    /\ nworkers = MaxWorkers
    /\ \A w \in Started : wpc[w] = "cancelled"
    /\ DOMAIN authors # {}

\* the number of ClubMessage rows stored for message m
Rows(m) ==
    Cardinality({ck \in Containers \X (1..Cardinality(Messages) + 1) :
                   ck[2] <= Len(emitted[ck[1]]) /\ emitted[ck[1]][ck[2]] = m})

\* C16: no message is stored twice, and when the crawl is Completed every
\* message of every container that was put, seed or discovered, is stored
\* once, so the number of rows is the sum of the containers' message counts.
C16_EmittedOnce ==
    /\ \A m \in Messages : Rows(m) <= 1
    /\ \A c \in Containers : \A k \in 1..Len(emitted[c]) : emitted[c][k] \in MessagesOf(c)
    /\ outcome = "Completed" =>
         /\ \A c \in Enqueued : \A m \in MessagesOf(c) : Rows(m) = 1
         /\ SumOver([c \in Containers |-> Len(emitted[c])], Containers)
              = SumOver([c \in Containers |-> NumMessages(c)], Enqueued)

\* C16 witness: a Completed crawl of every seed that discovered a thread and
\* stored a row for each message of the forest.
C16_Witness ==
    /\ outcome = "Completed"
    /\ Enqueued = Containers
    /\ \A m \in Messages : Rows(m) = 1

\* C17: the registry is empty when the crawl starts, and no step removes an
\* id from it or changes the entry an id maps to.
C17_RegistryGrows ==
    /\ authors = <<>>
    /\ [][\A id \in DOMAIN authors :
            id \in DOMAIN authors' /\ authors'[id] = authors[id]]_vars

\* C17 witness: the id registered first was met again with a later message
\* after other ids had been registered, and still maps to its first entry.
C17_Witness ==
    \E id \in DOMAIN authors :
        /\ authors[id] = 1
        /\ Cardinality(DOMAIN authors) >= 2
        /\ \E m1, m2 \in EmittedMessages :
             /\ m1 # m2
             /\ id \in {Author(m1)} \cup {k[1] : k \in {x \in DOMAIN pins : x[2] = m1}}
             /\ id \in {Author(m2)} \cup {k[1] : k \in {x \in DOMAIN pins : x[2] = m2}}

\* C18: a worker takes the head of the queue and a put appends to its tail,
\* so a discovered thread is taken only after every seed, all of which were
\* in the queue before it, has been taken.
C18_Fifo ==
    [][\A c \in Containers :
         /\ dequeued'[c] # dequeued[c] =>
              /\ queue # <<>> /\ c = Head(queue)
              /\ queue' = Tail(queue)
              /\ c \in Threads => \A s \in 1..nseeds : dequeued[s] = 1
         /\ put_count'[c] # put_count[c] =>
              /\ queue' = Append(queue, c)
              /\ dequeued' = dequeued]_vars

\* C18 witness: a thread is being processed by a worker other than the one
\* still processing the channel that disclosed it, after the seed that was
\* in the queue before the thread has been taken.
C18_Witness ==
    \E w, v \in Started : \E t \in Threads : \E c \in Channels :
        /\ w # v
        /\ t \in Children(c)
        /\ cur[v] = c /\ InFlight(v)
        /\ cur[w] = t /\ InFlight(w)
        /\ \A s \in 1..nseeds : dequeued[s] = 1
        /\ nseeds = NumChannels

\* C19: the rows stored for a container are the first messages of its
\* history, in the order of the history, and all of them once the container
\* has been marked done.
C19_PrefixOrder ==
    \A c \in Containers :
        /\ Len(emitted[c]) <= NumMessages(c)
        /\ \A k \in 1..Len(emitted[c]) : emitted[c][k] = History(c)[k]
        /\ done_count[c] >= 1 => emitted[c] = History(c)

\* C19 witness: a worker failed in a container of which it had stored the
\* first message and not the last, while another container was complete.
C19_Witness ==
    \E w \in FailedWorkers : \E c \in Containers :
        /\ cur[w] = c
        /\ 0 < Len(emitted[c]) /\ Len(emitted[c]) < NumMessages(c)
        /\ \E d \in Containers \ {c} : done_count[d] = 1

\* C20 as stated: a message is stored only after its reaction links, so no
\* stored message lacks a link it calls for.
C20_Original ==
    \A m \in EmittedMessages :
        \A u \in get_reacting_users(Reactions(m)) : <<u, m>> \in DOMAIN pins

\* C20 amended: per message the thread is put, then the author is
\* registered, then the message is stored, and only then are the reacting
\* users resolved and the links stored: a stored message has its thread put
\* and its author registered, and a stored link has its message stored and
\* its user registered.
C20_EmitBeforeLinks ==
    /\ \A m \in EmittedMessages :
         /\ Author(m) \in DOMAIN authors
         /\ has_thread(m) => put_count[fetch_channel(m)] >= 1
    /\ \A k \in DOMAIN pins :
         /\ k[2] \in EmittedMessages
         /\ k[1] \in DOMAIN authors
         /\ k[1] \in get_reacting_users(Reactions(k[2]))

\* C20 witness: a worker awaits the reacting users of a message that is
\* already stored, with its thread put, and has no link yet.
C20_Witness ==
    \E w \in Started :
        /\ wpc[w] = "reactions"
        /\ Message(w) \in EmittedMessages
        /\ has_thread(Message(w))
        /\ get_reacting_users(Reactions(Message(w))) # {}
        /\ \A u \in Users : <<u, Message(w)>> \notin DOMAIN pins

\* the reactions of message m that make user u a pinning user
PinReactions(u, m) ==
    {r \in Reactions(m) : emoji_name(r.emoji) \in EMOJI_PINS /\ u \in r.users}

\* C21: every ClubPinReaction row is for a user who has on that message a
\* reaction whose emoji name is in EMOJI_PINS, and there is one row per user
\* and message however many such reactions the user has.
C21_PinLinksOnly ==
    \A k \in DOMAIN pins :
        /\ k[1] \in Users /\ k[2] \in Messages
        /\ PinReactions(k[1], k[2]) # {}
        /\ pins[k] = 1

\* C21 witness: one row for a user who has two pin reactions on a message
\* that also carries a reaction of another emoji by another user.
C21_Witness ==
    \E k \in DOMAIN pins :
        /\ Cardinality(PinReactions(k[1], k[2])) >= 2
        /\ pins[k] = 1
        /\ \E r \in Reactions(k[2]) :
             emoji_name(r.emoji) \notin EMOJI_PINS /\ r.users # {}
        /\ \A u \in Users \ {k[1]} : <<u, k[2]>> \notin DOMAIN pins

\* C22: while a worker has failed its container is not marked done, the
\* pending count is above zero, queue.join() has not completed and the crawl
\* is not Completed; a Completed crawl has no failed worker and returned.
C22_DrainExcludesFailure ==
    /\ FailedWorkers # {} =>
         /\ \A w \in FailedWorkers : cur[w] # 0 /\ done_count[cur[w]] = 0
         /\ unfinished > 0
         /\ ~join_done
         /\ outcome # "Completed"
         /\ ~result.returned
    /\ outcome = "Completed" =>
         FailedWorkers = {} /\ \A w \in Started : werr[w] = NoError

\* C22 witness: a worker has failed, the crawl was raised, every other
\* container is done and the queue is empty, and the pending count still
\* stands at the failed worker's container.
C22_Witness ==
    /\ outcome = "Failed"
    /\ Cardinality(FailedWorkers) = 1
    /\ queue = <<>>
    /\ \A w \in Started \ FailedWorkers : wpc[w] = "get"
    /\ unfinished = 1
    /\ \E c \in Containers : done_count[c] = 1

\* C23: when asyncio.wait has returned and queue.join() is not done, the
\* list of done workers is not empty and its first element is a worker that
\* ended with an exception.
C23_DoneNotEmpty ==
    (coord_pc = "wait" /\ FirstCompleted(join_done, workers_done) /\ ~join_done) =>
        /\ workers_done # {}
        /\ FirstOf(workers_done) \in FailedWorkers
        /\ werr[FirstOf(workers_done)] # NoError

\* C23 witness: the coordinator is about to resume with queue.join() not
\* done, one worker done and another in the middle of a container.
C23_Witness ==
    /\ coord_pc = "wait" /\ ~join_done
    /\ FirstCompleted(join_done, workers_done)
    /\ Cardinality(workers_done) = 1
    /\ \E w \in Started : InFlight(w)

\* C24: whenever queue.join() can complete or has completed, the queue is
\* empty, no worker is inside a container and every container put was
\* processed to its end; a worker is cancelled only while it waits in
\* queue.get on the empty queue.
C24_CancelAbandonsNothing ==
    /\ []((Drained(unfinished, queue) \/ join_done) =>
            /\ queue = <<>>
            /\ \A w \in Started : ~InFlight(w) /\ wpc[w] \in {"get", "cancelled"}
            /\ \A w \in Started : cur[w] = 0
            /\ \A c \in Enqueued : emitted[c] = History(c) /\ LinksStored(c))
    /\ [][\A w \in Started :
            (wpc'[w] = "cancelled" /\ wpc[w] # "cancelled") =>
                wpc[w] = "get" /\ cur[w] = 0 /\ queue = <<>>]_vars

\* C24 witness: after two workers processed every container of the forest
\* and queue.join() completed, one worker has been cancelled in queue.get
\* and the other still waits there.
C24_Witness ==
    /\ coord_pc = "gather" /\ join_done
    /\ Enqueued = Containers
    /\ \A c \in Containers : FullyProcessed(c)
    /\ \E w, v \in Started : wpc[w] = "cancelled" /\ wpc[v] = "get"

\* C25: a step that stores a message leaves its author in the registry; a
\* step that stores a link leaves its user in the registry and is for a
\* message that was stored before the step; so every stored message has its
\* author, and every stored link its user and its message.
C25_ReferentialIntegrity ==
    /\ [](/\ \A m \in EmittedMessages : Author(m) \in DOMAIN authors
          /\ \A k \in DOMAIN pins :
               k[1] \in DOMAIN authors /\ k[2] \in EmittedMessages)
    /\ [][/\ \A m \in EmittedMessages' \ EmittedMessages :
               Author(m) \in DOMAIN authors'
          /\ \A k \in (DOMAIN pins') \ DOMAIN pins :
               /\ k[1] \in DOMAIN authors'
               /\ k[2] \in EmittedMessages]_vars

\* C25 witness: a link is stored for a user who is not the author of its
\* message and was registered for that reaction.
C25_Witness ==
    \E k \in DOMAIN pins :
        /\ k[2] \in EmittedMessages
        /\ k[1] # Author(k[2])
        /\ k[1] \in DOMAIN authors
        /\ k[1] \notin {Author(m) : m \in EmittedMessages}

\* the containers abandoned in flight by the workers that failed
Abandoned == {cur[w] : w \in FailedWorkers}

\* C26: the pending count is never negative and is the number of queued
\* containers plus those being processed by a live worker plus those
\* abandoned by failed workers; no container is marked done more often than
\* it was put.
C26_PendingBreakdown ==
    /\ unfinished >= 0
    /\ unfinished = Len(queue)
                      + Cardinality({w \in Started : InFlight(w)})
                      + Cardinality(Abandoned)
    /\ \A c \in Containers : done_count[c] <= put_count[c]
    /\ SumOver(done_count, Containers) <= SumOver(put_count, Containers)

\* C26 witness: one container is queued, one is being processed and one was
\* abandoned by a failed worker.
C26_Witness ==
    /\ queue # <<>>
    /\ \E w \in Started : InFlight(w)
    /\ Abandoned # {}
    /\ unfinished = NumChannels + 1

\* C27: a crawl of no channels returns the empty registry as Completed with
\* every worker cancelled in queue.get, and at no time has a worker taken a
\* container, registered a user or stored a row, or has the crawl Failed.
C27_EmptySeed ==
    /\ [](nseeds = 0 =>
            /\ \A w \in Started : wpc[w] \in {"get", "cancelled"} /\ cur[w] = 0
            /\ \A c \in Containers : dequeued[c] = 0 /\ emitted[c] = <<>>
            /\ authors = <<>> /\ pins = <<>>
            /\ outcome # "Failed")
    /\ (nseeds = 0) ~>
            /\ outcome = "Completed"
            /\ result = [returned |-> TRUE, registry |-> <<>>]
            /\ \A w \in Started : wpc[w] = "cancelled"

\* C27 witness: a crawl of no channels with the most workers has returned
\* the empty registry.
C27_Witness ==
    /\ nseeds = 0
    /\ nworkers = MaxWorkers
    /\ outcome = "Completed"
    /\ result = [returned |-> TRUE, registry |-> <<>>]
    /\ \A w \in Started : wpc[w] = "cancelled"
====
